---------------------------- MODULE Spec2Model ----------------------------
(***************************************************************************)
(* Verification model of the BMW dealership inventory scraper.             *)
(*                                                                         *)
(* Part I  (specification Spec): the job tracker of web/main.py, the       *)
(*   scrape_runs table of dealers_scraper/models.py, the OS process table  *)
(*   the tracker probes, and the extraction process of run_scraper.py.     *)
(* Part II (specification SpecStore): the VIN-keyed upsert of              *)
(*   dealers_scraper/pipelines.py over the vehicles table, with one        *)
(*   database session per concurrently running extraction process.         *)
(*                                                                         *)
(* Each specification leaves the variables of the other part at their      *)
(* initial value.                                                          *)
(***************************************************************************)
EXTENDS Integers, Sequences, FiniteSets, TLC

VARIABLES
    runs,       \* scrape_runs table: sequence of ScrapeRun rows, id = index
    now,        \* the wall clock read by datetime.utcnow()
    ptable,     \* OS process table: pid -> who holds the pid
    proc,       \* per job: the extraction process spawned for it, and the row as
                \* the first commit of trigger_scrape stored it
    resp,       \* the response of the web handler that ran in the last step
    vehicles,   \* vehicles table: sequence of Vehicle rows, id = index
    sess,       \* per pipeline: its SQLAlchemy session inside process_item
    clock,      \* the wall clock read by the pipelines' datetime.utcnow()
    hist,       \* outcome of each pipeline's last process_item; the last commit
    feed        \* the raw entries of the page an adapter is parsing, and how far
                \* it has come

trackerVars == <<runs, now, ptable, proc, resp>>
storeVars == <<vehicles, sess, clock, hist, feed>>
vars == <<runs, now, ptable, proc, resp, vehicles, sess, clock, hist, feed>>

(***************************************************************************)
(* Bounds of the model.                                                    *)
(***************************************************************************)
MaxJobs == 2
MaxPid == 2
MaxTargets == 2
MaxFed == 2
MaxPipes == 2
MaxClock == 3
MaxBatch == 2
MaxPages == 2

Pids == 1..MaxPid
NoPid == 0
NoTime == 0
NoMessage == <<>>

(***************************************************************************)
(* Part I: job tracker                                                     *)
(***************************************************************************)

\* ScrapeRun(platform=..., status='running', started_at=utcnow()); the other
\* columns take their defaults: counters 0, the rest NULL.
ScrapeRunCreateReusing(rs, platform, t) ==
    IF rs = <<>>
    THEN <<[platform |-> platform, status |-> "running", vehicles_scraped |-> 0,
            dealers_scraped |-> 0, error_message |-> NoMessage, started_at |-> t,
            completed_at |-> NoTime, pid |-> NoPid]>>
    ELSE [rs EXCEPT ![Len(rs)] =
            [platform |-> platform, status |-> "running", vehicles_scraped |-> 0,
             dealers_scraped |-> 0, error_message |-> NoMessage, started_at |-> t,
             completed_at |-> NoTime, pid |-> NoPid]]

ScrapeRunCreateCompleted(rs, platform, t) ==
    Append(rs, [platform |-> platform, status |-> "running", vehicles_scraped |-> 0,
                dealers_scraped |-> 0, error_message |-> NoMessage, started_at |-> t,
                completed_at |-> t, pid |-> NoPid])

ScrapeRunCreate(rs, platform, t) ==
    Append(rs, [platform |-> platform, status |-> "running", vehicles_scraped |-> 0,
                dealers_scraped |-> 0, error_message |-> NoMessage, started_at |-> t,
                completed_at |-> NoTime, pid |-> NoPid])

\* os.kill(pid, 0): succeeds for a process the caller may signal (its own
\* child, running or not yet reaped, or another process of the same user),
\* raises ProcessLookupError when no process has the pid and PermissionError
\* (an OSError) when the process belongs to another user; both are caught.
is_process_running_exists(pid) ==
    pid # NoPid /\ ptable[pid] # "none"

is_process_running(pid) ==
    pid # NoPid /\ ptable[pid] \in {"scraper", "user"}

\* session.query(ScrapeRun).order_by(ScrapeRun.started_at.desc()).first()
LastRunOldest(rs) ==
    {j \in DOMAIN rs : \A k \in DOMAIN rs : rs[j].started_at <= rs[k].started_at}

LastRun(rs) ==
    {j \in DOMAIN rs : \A k \in DOMAIN rs : rs[j].started_at >= rs[k].started_at}

\* The auto-recovery test of get_status.
NeedsRecovery(r) ==
    r.status = "running" /\ r.pid # NoPid /\ ~is_process_running(r.pid)

\* The auto-recovery assignments of get_status.
MarkTerminatedClearingPid(r, t) ==
    [r EXCEPT !.status = "failed",
              !.error_message = <<"Process", r.pid, "terminated unexpectedly">>,
              !.completed_at = t,
              !.pid = NoPid]

MarkTerminatedNoStamp(r, t) ==
    [r EXCEPT !.status = "failed",
              !.error_message = <<"Process", r.pid, "terminated unexpectedly">>]

MarkTerminated(r, t) ==
    [r EXCEPT !.status = "failed",
              !.error_message = <<"Process", r.pid, "terminated unexpectedly">>,
              !.completed_at = t]

\* The except branch of trigger_scrape.
MarkSpawnFailedStillRunning(r, t) ==
    [r EXCEPT !.error_message = <<"spawn error">>]

MarkSpawnFailed(r, t) ==
    [r EXCEPT !.status = "failed",
              !.error_message = <<"spawn error">>,
              !.completed_at = t]

NoProc == [phase |-> "unspawned", pid |-> NoPid, dealers |-> <<>>, crawlers |-> <<>>,
           targets |-> <<>>, pages |-> <<>>, found |-> <<>>, yielded |-> <<>>,
           fed |-> 0, exit |-> "none", created |-> <<>>]

\* resp holds what the handler of the step just taken returned, and
\* NoResponse after a step that is not a handler's.
Response(op, status, job, pid) ==
    [op |-> op, status |-> status, job |-> job, pid |-> pid]

NoResponse == Response("none", "none", 0, NoPid)

\* POST /api/scrape.  The handler is a coroutine without an await, so it runs
\* from its first line to its return without another handler in between.
\* The clock advances while it runs: started_at differs from job to job.
trigger_scrape_exclusive ==
    /\ Len(runs) < MaxJobs
    /\ IF \E j \in DOMAIN runs : runs[j].status = "running"
       THEN /\ resp' = Response("scrape", "error", 0, NoPid)
            /\ UNCHANGED <<runs, now, ptable, proc>>
       ELSE LET t == now + 1
                created == ScrapeRunCreate(runs, "all", t)
                id == Len(created)
            IN  /\ now' = t
                /\ \/ \E pid \in Pids :
                        /\ ptable[pid] = "none"
                        /\ ptable' = [ptable EXCEPT ![pid] = "scraper"]
                        /\ runs' = [created EXCEPT ![id].pid = pid]
                        /\ proc' = Append(proc, [NoProc EXCEPT !.phase = "main",
                                                                !.pid = pid,
                                                                !.created = created[id]])
                        /\ resp' = Response("scrape", "started", id, pid)
                   \/   /\ runs' = [created EXCEPT
                                        ![id] = MarkSpawnFailed(created[id], t)]
                        /\ proc' = Append(proc, [NoProc EXCEPT !.created = created[id]])
                        /\ resp' = Response("scrape", "error", id, NoPid)
                        /\ UNCHANGED ptable
    /\ UNCHANGED storeVars

trigger_scrape ==
    /\ Len(runs) < MaxJobs
    /\ \E platform \in {"all"} :
        LET t == now + 1
            created == ScrapeRunCreate(runs, platform, t)
            id == Len(created)
        IN  /\ now' = t
            /\ \/ \E pid \in Pids :
                    \* subprocess.Popen succeeds: the child holds a free pid
                    /\ ptable[pid] = "none"
                    /\ ptable' = [ptable EXCEPT ![pid] = "scraper"]
                    /\ runs' = [created EXCEPT ![id].pid = pid]
                    /\ proc' = Append(proc, [NoProc EXCEPT !.phase = "main", !.pid = pid,
                                                            !.created = created[id]])
                    /\ resp' = Response("scrape", "started", id, pid)
               \/   \* mkdir, open or Popen raises
                    /\ runs' = [created EXCEPT ![id] = MarkSpawnFailed(created[id], t)]
                    /\ proc' = Append(proc, [NoProc EXCEPT !.created = created[id]])
                    /\ resp' = Response("scrape", "error", id, NoPid)
                    /\ UNCHANGED ptable
    /\ UNCHANGED storeVars

\* GET /api/status
get_status_killing ==
    /\ \/ /\ runs = <<>>
          /\ resp' = Response("status", "idle", 0, NoPid)
          /\ UNCHANGED <<runs, ptable>>
       \/ \E j \in LastRun(runs) :
            LET after == IF NeedsRecovery(runs[j])
                         THEN MarkTerminated(runs[j], now)
                         ELSE runs[j]
            IN  /\ runs' = [runs EXCEPT ![j] = after]
                /\ ptable' = IF runs[j].status = "running" /\ runs[j].pid # NoPid
                              THEN [ptable EXCEPT ![runs[j].pid] = "none"]
                              ELSE ptable
                /\ resp' = Response("status", after.status, j, after.pid)
    /\ UNCHANGED <<now, proc>>
    /\ UNCHANGED storeVars

get_status ==
    /\ \/ /\ runs = <<>>
          /\ resp' = Response("status", "idle", 0, NoPid)
          /\ UNCHANGED runs
       \/ \E j \in LastRun(runs) :
            LET after == IF NeedsRecovery(runs[j])
                         THEN MarkTerminated(runs[j], now)
                         ELSE runs[j]
            IN  /\ runs' = [runs EXCEPT ![j] = after]
                /\ resp' = Response("status", after.status, j, after.pid)
    /\ UNCHANGED <<now, ptable, proc>>
    /\ UNCHANGED storeVars

\* GET /api/health
get_health_reconciling ==
    /\ \/ /\ runs = <<>>
          /\ resp' = Response("health", "not running", 0, NoPid)
          /\ UNCHANGED runs
       \/ \E j \in LastRun(runs) :
            LET probed == runs[j].status = "running" /\ runs[j].pid # NoPid
            IN  /\ resp' = Response("health",
                                    IF probed /\ is_process_running(runs[j].pid)
                                    THEN "scraper running" ELSE "not running",
                                    j,
                                    IF probed THEN runs[j].pid ELSE NoPid)
                /\ runs' = [runs EXCEPT ![j] = IF NeedsRecovery(runs[j])
                                               THEN MarkTerminated(runs[j], now)
                                               ELSE runs[j]]
    /\ UNCHANGED <<now, ptable, proc>>
    /\ UNCHANGED storeVars

get_health ==
    /\ \/ /\ runs = <<>>
          /\ resp' = Response("health", "not running", 0, NoPid)
       \/ \E j \in LastRun(runs) :
            LET probed == runs[j].status = "running" /\ runs[j].pid # NoPid
            IN  resp' = Response("health",
                                 IF probed /\ is_process_running(runs[j].pid)
                                 THEN "scraper running" ELSE "not running",
                                 j,
                                 IF probed THEN runs[j].pid ELSE NoPid)
    /\ UNCHANGED <<runs, now, ptable, proc>>
    /\ UNCHANGED storeVars

\* GET /api/stats
get_stats ==
    /\ \/ /\ runs = <<>>
          /\ resp' = Response("stats", "none", 0, NoPid)
       \/ \E j \in LastRun(runs) :
            resp' = Response("stats", runs[j].status, j, NoPid)
    /\ UNCHANGED <<runs, now, ptable, proc>>
    /\ UNCHANGED storeVars

(***************************************************************************)
(* The extraction process (run_scraper.py) spawned for job j.              *)
(***************************************************************************)
Spawned(j) == j \in DOMAIN proc /\ proc[j].phase # "unspawned"

AllClosed(ts) == \A i \in DOMAIN ts : ts[i] = "closed"

\* DEALER_PLATFORM_MAP, of which the model keeps one dealer of each platform.
DEALER_PLATFORM_MAP ==
    [name \in {"BMW of San Francisco", "Valencia BMW"} |->
        IF name = "BMW of San Francisco"
        THEN [platform |-> "roadster",
              inventory_url |-> "https://express.bmwsf.com/inventory"]
        ELSE [platform |-> "dealercom",
              inventory_url |-> "https://www.valenciabmw.com/new-inventory/index.htm"]]

\* The names a row of dealers.csv may carry: the two of the map and one
\* that the map does not have.
DealerNames == {"BMW of San Francisco", "Valencia BMW", "BMW of Santa Maria"}

\* DealerConfig.__init__: platform and inventory_url stay None ("none") for
\* a name that is not in the map.
DealerConfig(name) ==
    IF name \in DOMAIN DEALER_PLATFORM_MAP
    THEN [name |-> name, platform |-> DEALER_PLATFORM_MAP[name].platform,
          inventory_url |-> DEALER_PLATFORM_MAP[name].inventory_url]
    ELSE [name |-> name, platform |-> "none", inventory_url |-> "none"]

\* DealerConfig.is_supported
is_supported_always(dealer) == TRUE

is_supported(dealer) ==
    dealer.platform \in {"roadster", "dealercom"} /\ dealer.inventory_url # "none"

\* filter_supported_dealers
filter_supported_dealers(dealers) == SelectSeq(dealers, is_supported)

\* read_dealers_csv: every list of at most n rows
RECURSIVE Configs(_)
Configs(n) ==
    IF n = 0 THEN {<<>>}
    ELSE Configs(n - 1)
         \cup {Append(c, name) : c \in {c \in Configs(n - 1) : Len(c) = n - 1},
                                 name \in DealerNames}

\* main(): read the dealers (names is the Dealer column of the rows read),
\* keep the supported ones, exit with status 1 when none is left;
\* run_scraper(): process.crawl() for each supported dealer, then
\* process.start(), which opens every scheduled crawler in one reactor.
main(j, names) ==
    /\ Spawned(j) /\ proc[j].phase = "main"
    /\ LET dealers == [i \in DOMAIN names |-> DealerConfig(names[i])]
           supported_dealers == filter_supported_dealers(dealers)
       IN  IF supported_dealers = <<>>
           THEN proc' = [proc EXCEPT ![j].phase = "exited", ![j].exit = "error",
                                     ![j].dealers = names]
           ELSE proc' = [proc EXCEPT ![j].phase = "crawl",
                                     ![j].dealers = names,
                                     ![j].crawlers = supported_dealers,
                                     ![j].targets = [i \in DOMAIN supported_dealers
                                                        |-> "open"],
                                     ![j].pages = [i \in DOMAIN supported_dealers
                                                        |-> <<>>],
                                     ![j].found = [i \in DOMAIN supported_dealers
                                                        |-> 0],
                                     ![j].yielded = [i \in DOMAIN supported_dealers
                                                        |-> 0]]
    /\ resp' = NoResponse
    /\ UNCHANGED <<runs, now, ptable>>
    /\ UNCHANGED storeVars

\* A crawler yields one canonical record of the vehicle list its parse
\* callback found, and Scrapy hands the record to VehiclePipeline.process_item.
spider_item(j, i) ==
    /\ Spawned(j) /\ proc[j].phase = "crawl"
    /\ i \in DOMAIN proc[j].targets /\ proc[j].targets[i] = "open"
    /\ proc[j].yielded[i] < proc[j].found[i]
    /\ proc[j].fed < MaxFed
    /\ proc' = [proc EXCEPT ![j].fed = @ + 1, ![j].yielded[i] = @ + 1]
    /\ resp' = NoResponse
    /\ UNCHANGED <<runs, now, ptable>>
    /\ UNCHANGED storeVars

\* A crawler has no request left and closes.
spider_closed(j, i) ==
    /\ Spawned(j) /\ proc[j].phase = "crawl"
    /\ i \in DOMAIN proc[j].targets /\ proc[j].targets[i] = "open"
    /\ proc' = [proc EXCEPT ![j].targets[i] = "closed"]
    /\ resp' = NoResponse
    /\ UNCHANGED <<runs, now, ptable>>
    /\ UNCHANGED storeVars

\* process.start() returns once every crawler has closed; run_scraper and
\* main return and the process exits with status 0.  Nothing on this path
\* writes to scrape_runs.
run_scraper_done(j) ==
    /\ Spawned(j) /\ proc[j].phase = "crawl"
    /\ AllClosed(proc[j].targets)
    /\ proc' = [proc EXCEPT ![j].phase = "exited", ![j].exit = "ok"]
    /\ resp' = NoResponse
    /\ UNCHANGED <<runs, now, ptable>>
    /\ UNCHANGED storeVars

\* The process dies early: process.start() raises (sys.exit(1)) or the
\* process is terminated from outside.
process_crash(j) ==
    /\ Spawned(j) /\ proc[j].phase \in {"main", "crawl"}
    /\ proc' = [proc EXCEPT ![j] = [NoProc EXCEPT !.phase = "exited", !.pid = proc[j].pid,
                                                  !.exit = "error",
                                                  !.created = proc[j].created]]
    /\ resp' = NoResponse
    /\ UNCHANGED <<runs, now, ptable>>
    /\ UNCHANGED storeVars

\* The exited child is reaped (by the next Popen of the web process, or by
\* init once the web process is gone): its pid leaves the process table.
process_reaped(j) ==
    /\ Spawned(j) /\ proc[j].phase = "exited"
    /\ proc' = [proc EXCEPT ![j].phase = "gone"]
    /\ ptable' = [ptable EXCEPT ![proc[j].pid] = "none"]
    /\ resp' = NoResponse
    /\ UNCHANGED <<runs, now>>
    /\ UNCHANGED storeVars

\* An unrelated process takes a free pid: one of the web process's own user,
\* or one of another user, which os.kill may not signal.
other_process_start(pid, owner) ==
    /\ ptable[pid] = "none"
    /\ ptable' = [ptable EXCEPT ![pid] = owner]
    /\ resp' = NoResponse
    /\ UNCHANGED <<runs, now, proc>>
    /\ UNCHANGED storeVars

other_process_exit(pid) ==
    /\ ptable[pid] \in {"user", "foreign"}
    /\ ptable' = [ptable EXCEPT ![pid] = "none"]
    /\ resp' = NoResponse
    /\ UNCHANGED <<runs, now, proc>>
    /\ UNCHANGED storeVars

(***************************************************************************)
(* Part II: the upsert store                                               *)
(*                                                                         *)
(* A Python str is a sequence of one-character strings; None is Null and   *)
(* any other value v of a column or of an item key is Some(v).             *)
(***************************************************************************)
Null == <<>>
Some(v) == <<v>>

Digit == {"0", "1", "2", "3", "4", "5", "6", "7", "8", "9"}
DigitChars == <<"0", "1", "2", "3", "4", "5", "6", "7", "8", "9">>
Uppers == <<"A", "B", "C", "D", "E", "F", "G", "H", "I", "J", "K", "L", "M",
            "N", "O", "P", "Q", "R", "S", "T", "U", "V", "W", "X", "Y", "Z">>
Lowers == <<"a", "b", "c", "d", "e", "f", "g", "h", "i", "j", "k", "l", "m",
            "n", "o", "p", "q", "r", "s", "t", "u", "v", "w", "x", "y", "z">>
UpperCase == {Uppers[i] : i \in DOMAIN Uppers}
LowerCase == {Lowers[i] : i \in DOMAIN Lowers}
Letter == UpperCase \cup LowerCase
Space == {" "}

\* The literals of the patterns and the defaults of parse_title.
StrBMW == <<"B", "M", "W">>
StrMercedes == <<"M", "e", "r", "c", "e", "d", "e", "s", "-", "B", "e", "n", "z">>
StrAudi == <<"A", "u", "d", "i">>
StrLexus == <<"L", "e", "x", "u", "s">>
StrX3 == <<"X", "3">>

ToUpper(c) ==
    IF c \in LowerCase THEN Uppers[CHOOSE i \in DOMAIN Lowers : Lowers[i] = c] ELSE c

\* int() of a string of digits
RECURSIVE ToInt(_)
ToInt(ds) ==
    IF ds = <<>> THEN 0
    ELSE 10 * ToInt(SubSeq(ds, 1, Len(ds) - 1))
         + ((CHOOSE i \in DOMAIN DigitChars : DigitChars[i] = ds[Len(ds)]) - 1)

\* s[p] exists and is of class cls
IsAt(s, p, cls) == p \in 1..Len(s) /\ s[p] \in cls

\* The first position from p on that is not of class cls: the end of a greedy
\* cls* started at p.
RunEnd(s, p, cls) ==
    CHOOSE q \in p..(Len(s) + 1) :
        /\ \A k \in p..(q - 1) : s[k] \in cls
        /\ (q = Len(s) + 1 \/ s[q] \notin cls)

\* The literal lit stands at s[p..], compared without case when nocase.
LitAt(s, p, lit, nocase) ==
    /\ p >= 1 /\ p + Len(lit) - 1 <= Len(s)
    /\ \A k \in 1..Len(lit) :
        IF nocase THEN ToUpper(s[p + k - 1]) = ToUpper(lit[k])
        ELSE s[p + k - 1] = lit[k]

\* A regex match: whether it matched, the span of group 0 and of group 1.
NoMatch == [ok |-> FALSE, from |-> 0, to |-> 0, gfrom |-> 0, gto |-> 0]
Match(from, to, gfrom, gto) ==
    [ok |-> TRUE, from |-> from, to |-> to, gfrom |-> gfrom, gto |-> gto]
Group0(s, m) == SubSeq(s, m.from, m.to)
Group1(s, m) == SubSeq(s, m.gfrom, m.gto)

\* The leftmost position at which At(p) matches: re.search
Search(s, At(_)) ==
    IF \E p \in 1..Len(s) : At(p).ok
    THEN At(CHOOSE p \in 1..Len(s) : At(p).ok /\ \A q \in 1..(p - 1) : ~At(q).ok)
    ELSE NoMatch

\* r'^\s*(\d{4})'
YearRe(s) ==
    LET q == RunEnd(s, 1, Space)
    IN  IF \A k \in q..(q + 3) : IsAt(s, k, Digit)
        THEN Match(1, q + 3, q, q + 3)
        ELSE NoMatch

\* r'\d{4}\s+(BMW|Mercedes-Benz|Audi|Lexus|[A-Z][a-z]+)' with re.IGNORECASE,
\* tried at position p
MakeReAt(s, p) ==
    IF (\A k \in p..(p + 3) : IsAt(s, k, Digit)) /\ IsAt(s, p + 4, Space)
    THEN LET q == RunEnd(s, p + 4, Space)
             e == RunEnd(s, q, Letter)
         IN  CASE LitAt(s, q, StrBMW, TRUE) -> Match(p, q + 2, q, q + 2)
               [] LitAt(s, q, StrMercedes, TRUE) -> Match(p, q + 12, q, q + 12)
               [] LitAt(s, q, StrAudi, TRUE) -> Match(p, q + 3, q, q + 3)
               [] LitAt(s, q, StrLexus, TRUE) -> Match(p, q + 4, q, q + 4)
               [] e - q >= 2 -> Match(p, e - 1, q, e - 1)
               [] OTHER -> NoMatch
    ELSE NoMatch

MakeRe(s) == LET At(p) == MakeReAt(s, p) IN Search(s, At)

\* r'(X\d|[A-Z]\d+|[A-Z][a-z]+\s+[A-Z]\d+)', tried at position p
ModelReAt(s, p) ==
    IF ~IsAt(s, p, UpperCase) THEN NoMatch
    ELSE LET d == RunEnd(s, p + 1, Digit)
             l == RunEnd(s, p + 1, LowerCase)
             w == RunEnd(s, l, Space)
             n == RunEnd(s, w + 1, Digit)
         IN  CASE s[p] = "X" /\ IsAt(s, p + 1, Digit) -> Match(p, p + 1, p, p + 1)
               [] d > p + 1 -> Match(p, d - 1, p, d - 1)
               [] l > p + 1 /\ w > l /\ IsAt(s, w, UpperCase) /\ n > w + 1 ->
                    Match(p, n - 1, p, n - 1)
               [] OTHER -> NoMatch

ModelRe(s) == LET At(p) == ModelReAt(s, p) IN Search(s, At)

\* r'BMW\s*' with re.IGNORECASE, tried at position p
BmwReAt(s, p) ==
    IF LitAt(s, p, StrBMW, TRUE)
    THEN Match(p, RunEnd(s, p + 3, Space) - 1, p, p + 2)
    ELSE NoMatch

\* s with s[from..to] cut out
Cut(s, from, to) == SubSeq(s, 1, from - 1) \o SubSeq(s, to + 1, Len(s))

\* str.replace(old, '', 1): the first occurrence of old removed
ReplaceFirst(s, old) ==
    IF old # <<>> /\ \E p \in 1..Len(s) : LitAt(s, p, old, FALSE)
    THEN LET p == CHOOSE p \in 1..Len(s) :
                    /\ LitAt(s, p, old, FALSE)
                    /\ \A q \in 1..(p - 1) : ~LitAt(s, q, old, FALSE)
         IN  Cut(s, p, p + Len(old) - 1)
    ELSE s

\* re.sub(r'BMW\s*', '', s, count=1, flags=re.IGNORECASE)
SubBmw(s) ==
    LET At(p) == BmwReAt(s, p)
        m == Search(s, At)
    IN  IF m.ok THEN Cut(s, m.from, m.to) ELSE s

\* str.strip()
Strip(s) ==
    IF \A k \in 1..Len(s) : s[k] \in Space THEN <<>>
    ELSE LET a == CHOOSE a \in 1..Len(s) :
                    s[a] \notin Space /\ \A k \in 1..(a - 1) : s[k] \in Space
             b == CHOOSE b \in 1..Len(s) :
                    s[b] \notin Space /\ \A k \in (b + 1)..Len(s) : s[k] \in Space
         IN  SubSeq(s, a, b)

\* VehiclePipeline.parse_title; title is item.get('title', ''): Null (None)
\* and the empty string both take the early return.
parse_title(title) ==
    IF title = Null \/ title[1] = <<>>
    THEN [year |-> Null, make |-> Some(StrBMW), model |-> Some(StrX3), trim |-> Null]
    ELSE LET s == title[1]
             year_match == YearRe(s)
             make_match == MakeRe(s)
             model_match == ModelRe(s)
             t1 == IF year_match.ok THEN ReplaceFirst(s, Group0(s, year_match)) ELSE s
             t2 == IF make_match.ok THEN SubBmw(t1) ELSE t1
             t3 == IF model_match.ok THEN ReplaceFirst(t2, Group0(s, model_match)) ELSE t2
             trim == Strip(t3)
         IN  [year |-> IF year_match.ok THEN Some(ToInt(Group1(s, year_match))) ELSE Null,
              make |-> IF make_match.ok THEN Some(Group1(s, make_match)) ELSE Some(StrBMW),
              model |-> IF model_match.ok THEN Some(Group1(s, model_match)) ELSE Some(StrX3),
              trim |-> IF trim # <<>> THEN Some(trim) ELSE Null]

(***************************************************************************)
(* The vehicles table and VehiclePipeline.process_item.                     *)
(***************************************************************************)
ItemGetCols == {"dealer", "title", "msrp", "price", "odometer", "ext_color",
                "int_color", "options", "dealer_platform", "source_url"}
ParsedCols == {"year", "make", "model", "trim"}
MutableCols == ItemGetCols \cup ParsedCols
StampCols == {"scraped_at", "updated_at", "created_at"}
AllCols == MutableCols \cup StampCols \cup {"vin"}
\* Column(..., nullable=False) of Vehicle, beside vin and the timestamps
NotNullCols == {"dealer", "title", "make", "model", "dealer_platform", "source_url"}

\* dict.get(key, default)
Get(d, key, default) == IF key \in DOMAIN d THEN d[key] ELSE default

\* The assignments of the update branch of process_item.
MergedRowStampingCreated(existing, item, parsed, t) ==
    [c \in AllCols |->
        CASE c \in ItemGetCols -> Get(item, c, existing[c])
          [] c \in ParsedCols -> Get(parsed, c, existing[c])
          [] c \in StampCols -> t
          [] OTHER -> existing[c]]

MergedRowKeepingStamp(existing, item, parsed, t) ==
    [c \in AllCols |->
        CASE c \in ItemGetCols -> Get(item, c, existing[c])
          [] c \in ParsedCols -> Get(parsed, c, existing[c])
          [] c = "scraped_at" -> t
          [] OTHER -> existing[c]]

MergedRowPriceHistory(existing, item, parsed, t) ==
    [c \in AllCols |->
        CASE c = "msrp" -> existing["price"]
          [] c \in ItemGetCols -> Get(item, c, existing[c])
          [] c \in ParsedCols -> Get(parsed, c, existing[c])
          [] c \in {"scraped_at", "updated_at"} -> t
          [] OTHER -> existing[c]]

MergedRow(existing, item, parsed, t) ==
    [c \in AllCols |->
        CASE c \in ItemGetCols -> Get(item, c, existing[c])
          [] c \in ParsedCols -> Get(parsed, c, existing[c])
          [] c \in {"scraped_at", "updated_at"} -> t
          [] OTHER -> existing[c]]

\* The Vehicle(...) of the insert branch of process_item.
NewRow(item, parsed, t) ==
    [c \in AllCols |->
        CASE c \in ItemGetCols -> Get(item, c, Null)
          [] c = "make" -> Get(parsed, c, Some(StrBMW))
          [] c = "model" -> Get(parsed, c, Some(StrX3))
          [] c \in ParsedCols -> Get(parsed, c, Null)
          [] c \in StampCols -> t
          [] OTHER -> item["vin"]]

\* session.query(Vehicle).filter_by(vin=...).first(): the row id, 0 for None
FindByVin(table, vin) ==
    IF \E i \in DOMAIN table : table[i]["vin"] = vin
    THEN CHOOSE i \in DOMAIN table :
            table[i]["vin"] = vin /\ \A k \in 1..(i - 1) : table[k]["vin"] # vin
    ELSE 0

\* The constraints the database checks when the flush reaches it.
\* INSERT: NOT NULL columns and UNIQUE(vin).
InsertErrorNoUnique(table, row) ==
    IF \E c \in NotNullCols : row[c] = Null THEN "IntegrityError: NOT NULL"
    ELSE "none"

InsertError(table, row) ==
    IF \E c \in NotNullCols : row[c] = Null THEN "IntegrityError: NOT NULL"
    ELSE IF \E i \in DOMAIN table : table[i]["vin"] = row["vin"]
         THEN "IntegrityError: UNIQUE"
         ELSE "none"

\* UPDATE ... WHERE id = ?: the unit of work writes the columns whose value
\* differs from the one the session loaded.
ChangedCols(loaded, pending) == {c \in AllCols : pending[c] # loaded[c]}

UpdateError(loaded, pending) ==
    IF \E c \in ChangedCols(loaded, pending) \cap NotNullCols : pending[c] = Null
    THEN "IntegrityError: NOT NULL"
    ELSE "none"

UpdatedRowWhole(current, loaded, pending) ==
    pending

UpdatedRow(current, loaded, pending) ==
    [c \in AllCols |-> IF c \in ChangedCols(loaded, pending) THEN pending[c] ELSE current[c]]

Pipes == 1..MaxPipes

IdleSession == [pc |-> "idle", item |-> Null, existing |-> 0, loaded |-> Null,
                pending |-> Null, t |-> 0]
NoOutcome == [kind |-> "none", item |-> Null, ok |-> FALSE, error |-> "none",
              retry |-> FALSE]

\* The canonical records fed to the pipelines.  The adapters emit every key,
\* None included (RoadsterSpider._parse_vehicle, DealercomSpider.parse_vehicle);
\* PriceDrop is the partial record of the merge law: a price and nothing else.
TitleX5 == <<"2", "0", "2", "4", " ", "B", "M", "W", " ", "X", "5", " ", "M", "5", "0", "i">>
TitleX3 == <<"2", "0", "2", "5", " ", "B", "M", "W", " ", "X", "3">>

RoadsterX5 ==
    [vin |-> "WBA5R1C07NBP12347", title |-> Some(TitleX5),
     dealer |-> Some("BMW of San Francisco"), dealer_platform |-> Some("Roadster"),
     source_url |-> Some("https://www.bmwsf.com/inventory"),
     price |-> Some(85000), msrp |-> Some(90000), ext_color |-> Some("Black"),
     int_color |-> Null, odometer |-> Null, year |-> Some(2024),
     model |-> Some("X5"), trim |-> Some("M50i"), options |-> Null]

RoadsterX5Rescan ==
    [vin |-> "WBA5R1C07NBP12347", title |-> Some(TitleX5),
     dealer |-> Some("BMW of San Francisco"), dealer_platform |-> Some("Roadster"),
     source_url |-> Some("https://www.bmwsf.com/inventory"),
     price |-> Null, msrp |-> Some(90000), ext_color |-> Null,
     int_color |-> Null, odometer |-> Some(100), year |-> Some(2024),
     model |-> Some("X5"), trim |-> Some("M50i"), options |-> Null]

PriceDrop ==
    [vin |-> "WBA5R1C07NBP12347", price |-> Some(82000)]

DealercomX3 ==
    [vin |-> "5UX53DP05R9T12345", title |-> Some(TitleX3),
     dealer |-> Some("Valencia BMW"), dealer_platform |-> Some("Dealer.com"),
     source_url |-> Some("https://www.valenciabmw.com/new-inventory/index.htm"),
     price |-> Some(52000), msrp |-> Null, ext_color |-> Null,
     int_color |-> Some("Cognac"), odometer |-> Some(12), year |-> Some(2025),
     model |-> Some("X3"), trim |-> Null, options |-> Null]

\* A Roadster entry without title, name or model: _parse_vehicle leaves the
\* title None.
RoadsterNoTitle ==
    [vin |-> "5UX53DP05R9T12345", title |-> Null,
     dealer |-> Some("BMW of San Francisco"), dealer_platform |-> Some("Roadster"),
     source_url |-> Some("https://www.bmwsf.com/inventory"),
     price |-> Some(51000), msrp |-> Null, ext_color |-> Null,
     int_color |-> Null, odometer |-> Null, year |-> Some(2025),
     model |-> Null, trim |-> Null, options |-> Null]

Items == {RoadsterX5, RoadsterX5Rescan, PriceDrop, DealercomX3, RoadsterNoTitle}

\* process_item up to its commit: parse the title, look the VIN up, read the
\* clock and set the attributes of the loaded row, or build the new row.
\* Every reading of the clock is later than the readings before it.
\* process_item knows nothing of feed: the step that hands it the item says
\* what becomes of feed.
process_item_query(p, item) ==
    /\ sess[p].pc = "idle"
    /\ clock < MaxClock
    /\ LET parsed == parse_title(Get(item, "title", Some(<<>>)))
           existing == FindByVin(vehicles, item["vin"])
           t == clock + 1
       IN  /\ clock' = t
           /\ sess' = [sess EXCEPT ![p] =
                [pc |-> "flushing", item |-> item, existing |-> existing,
                 loaded |-> IF existing # 0 THEN vehicles[existing] ELSE Null,
                 pending |-> IF existing # 0
                             THEN MergedRow(vehicles[existing], item, parsed, t)
                             ELSE NewRow(item, parsed, t),
                 t |-> t]]
    /\ UNCHANGED <<vehicles, hist>>
    /\ UNCHANGED trackerVars

\* session.commit(), and on an exception session.rollback() and raise.
process_item_commit_no_rollback(p) ==
    /\ sess[p].pc = "flushing"
    /\ LET s == sess[p]
           error == IF s.existing = 0
                    THEN InsertError(vehicles, s.pending)
                    ELSE UpdateError(s.loaded, s.pending)
       IN  /\ vehicles' =
                IF error # "none" THEN vehicles
                ELSE IF s.existing = 0 THEN Append(vehicles, s.pending)
                ELSE [vehicles EXCEPT ![s.existing] =
                        UpdatedRow(vehicles[s.existing], s.loaded, s.pending)]
           /\ hist' = [out |-> [hist.out EXCEPT ![p] =
                                    [kind |-> IF s.existing = 0 THEN "insert" ELSE "update",
                                     item |-> s.item, ok |-> error = "none",
                                     error |-> error,
                                     retry |-> hist.out[p].kind # "none"
                                               /\ ~hist.out[p].ok]],
                       last |-> IF error = "none" THEN {s.item} ELSE hist.last,
                       raced |-> IF error = "none"
                                 THEN s.existing # 0 /\ vehicles[s.existing] # s.loaded
                                 ELSE hist.raced]
    /\ sess' = [sess EXCEPT ![p] =
            IF hist'.out[p].ok THEN IdleSession
            ELSE [IdleSession EXCEPT !.pc = "inactive"]]
    /\ UNCHANGED clock
    /\ UNCHANGED trackerVars

process_item_commit(p) ==
    /\ sess[p].pc = "flushing"
    /\ LET s == sess[p]
           error == IF s.existing = 0
                    THEN InsertError(vehicles, s.pending)
                    ELSE UpdateError(s.loaded, s.pending)
       IN  /\ vehicles' =
                IF error # "none" THEN vehicles
                ELSE IF s.existing = 0 THEN Append(vehicles, s.pending)
                ELSE [vehicles EXCEPT ![s.existing] =
                        UpdatedRow(vehicles[s.existing], s.loaded, s.pending)]
           /\ hist' = [out |-> [hist.out EXCEPT ![p] =
                                    [kind |-> IF s.existing = 0 THEN "insert" ELSE "update",
                                     item |-> s.item, ok |-> error = "none",
                                     error |-> error,
                                     retry |-> hist.out[p].kind # "none"
                                               /\ ~hist.out[p].ok]],
                       last |-> IF error = "none" THEN {s.item} ELSE hist.last,
                       raced |-> IF error = "none"
                                 THEN s.existing # 0 /\ vehicles[s.existing] # s.loaded
                                 ELSE hist.raced]
    /\ sess' = [sess EXCEPT ![p] = IdleSession]
    /\ UNCHANGED clock
    /\ UNCHANGED trackerVars

(***************************************************************************)
(* Part III: the platform adapters (RoadsterSpider, DealercomSpider).      *)
(* A raw entry is a dict of the page: a record whose values are None        *)
(* (Null) or Some(v).  VINs, colours and options are strings, years, prices *)
(* and mileages numbers, titles, makes, models and trims strings spelled    *)
(* out as characters; raw entries carry no list values and no url.  Where   *)
(* a number is expected a raw entry may also hold a text, Text(chars), or   *)
(* a dict or list, Obj.                                                     *)
(***************************************************************************)
Text(chars) == <<"text", chars>>
Obj == <<"object", <<>>>>
IsNumber(x) == Len(x) = 1
IsText(x) == Len(x) = 2 /\ x[1] = "text"

\* re.sub / str.replace of single characters by '', and a text that int()
\* and float() accept: digits, with blanks around them
RemoveChars(chars, removed) == SelectSeq(chars, LAMBDA c : c \notin removed)
IsDigits(chars) == Strip(chars) # <<>> /\ \A k \in DOMAIN Strip(chars) : Strip(chars)[k] \in Digit
\* dict.get(key)
RawGet(d, key) == IF key \in DOMAIN d THEN d[key] ELSE Null

\* Python truth of a string, of a number, of a string of characters
TruthyStr(x) == x # Null /\ x # Some("")
TruthyNum(x) == x # Null /\ x # Some(0) /\ x # Text(<<>>)
TruthySeq(x) == x # Null /\ x # Some(<<>>)

\* a or b
OrNumNotNone(a, b) == IF a # Null THEN a ELSE b

OrStr(a, b) == IF TruthyStr(a) THEN a ELSE b
OrNum(a, b) == IF TruthyNum(a) THEN a ELSE b
OrSeq(a, b) == IF TruthySeq(a) THEN a ELSE b

\* str() of a number, and what an f-string makes of a value or of None
StrNone == <<"N", "o", "n", "e">>
RECURSIVE NatToStr(_)
NatToStr(n) ==
    IF n < 10 THEN <<DigitChars[n + 1]>>
    ELSE NatToStr(n \div 10) \o <<DigitChars[(n % 10) + 1]>>
FmtNum(x) ==
    IF x = Null THEN StrNone
    ELSE IF IsNumber(x) THEN NatToStr(x[1])
    ELSE IF IsText(x) THEN x[2]
    ELSE <<"{", "}">>
FmtSeq(x) == IF x = Null THEN StrNone ELSE x[1]

\* vehicle_data.get('vin') or vehicle_data.get('VIN'), in both adapters
ExtractVinLowerOnly(raw) == RawGet(raw, "vin")

ExtractVin(raw) == OrStr(RawGet(raw, "vin"), RawGet(raw, "VIN"))

\* DealercomSpider.extract_year
extract_year(raw) ==
    LET year == OrNum(RawGet(raw, "year"), RawGet(raw, "Year"))
        int == IF IsNumber(year) THEN year
               ELSE IF IsText(year) /\ IsDigits(year[2]) THEN Some(ToInt(Strip(year[2])))
               ELSE Null
    IN  IF TruthyNum(year) /\ int # Null /\ 1980 <= int[1] /\ int[1] <= 2030
        THEN int ELSE Null

\* DealercomSpider.extract_price: the first of the keys whose value is not None
\* ToFloat: float(value), with '$' and ',' removed from a text; None for
\* None and where float() raises
extract_price(raw, k1, k2, k3) ==
    LET ToFloat(value) ==
            IF value = Null THEN Null
            ELSE IF IsNumber(value) THEN value
            ELSE IF IsText(value) /\ IsDigits(RemoveChars(value[2], {"$", ","}))
            THEN Some(ToInt(Strip(RemoveChars(value[2], {"$", ","}))))
            ELSE Null
    IN  IF ToFloat(RawGet(raw, k1)) # Null THEN ToFloat(RawGet(raw, k1))
        ELSE IF ToFloat(RawGet(raw, k2)) # Null THEN ToFloat(RawGet(raw, k2))
        ELSE ToFloat(RawGet(raw, k3))

\* DealercomSpider.extract_odometer
extract_odometer(raw) ==
    LET odometer == OrNum(OrNum(RawGet(raw, "odometer"), RawGet(raw, "mileage")),
                          RawGet(raw, "miles"))
    IN  IF odometer = Null THEN Null
        ELSE IF IsNumber(odometer) THEN odometer
        ELSE IF IsText(odometer) /\ IsDigits(RemoveChars(odometer[2], {","}))
        THEN Some(ToInt(Strip(RemoveChars(odometer[2], {","}))))
        ELSE Null

\* DealercomSpider.parse_vehicle: the item, or None (<<>>) for an entry to skip
DealercomParseVehicle(raw, dealer_name, source_url) ==
    LET vin == ExtractVin(raw)
        year == extract_year(raw)
        make == OrSeq(OrSeq(RawGet(raw, "make"), RawGet(raw, "Make")), Some(StrBMW))
        model == OrSeq(RawGet(raw, "model"), Get(raw, "Model", Some(<<>>)))
        trim == OrSeq(OrSeq(RawGet(raw, "trim"), RawGet(raw, "Trim")),
                      RawGet(raw, "series"))
        given == OrSeq(RawGet(raw, "title"), RawGet(raw, "vehicleTitle"))
        title == IF TruthySeq(given) THEN given
                 ELSE Some(Strip(FmtNum(year) \o <<" ">> \o FmtSeq(make) \o <<" ">>
                                 \o FmtSeq(model) \o <<" ">> \o FmtSeq(trim)))
    IN  IF ~TruthyStr(vin) THEN <<>>
        ELSE [vin |-> vin[1], dealer |-> Some(dealer_name),
              dealer_platform |-> Some("Dealer.com"), source_url |-> Some(source_url),
              title |-> title, year |-> year, model |-> model, trim |-> trim,
              price |-> extract_price(raw, "price", "sellingPrice", "internetPrice"),
              msrp |-> extract_price(raw, "msrp", "MSRP", "listPrice"),
              ext_color |-> OrStr(OrStr(RawGet(raw, "extColor"),
                                        RawGet(raw, "exteriorColor")),
                                  RawGet(raw, "ext_color")),
              int_color |-> OrStr(OrStr(RawGet(raw, "intColor"),
                                        RawGet(raw, "interiorColor")),
                                  RawGet(raw, "int_color")),
              odometer |-> extract_odometer(raw),
              options |-> OrStr(RawGet(raw, "options"), RawGet(raw, "packageCodes"))]

\* RoadsterSpider._extract_price: a number as it is; of a text, with '$'
\* and ',' removed, the first run of digits; None for a list and for a dict
\* without 'value' and 'amount'.
_extract_price(price_value) ==
    LET FirstDigits(chars) ==
            IF \E p \in DOMAIN chars : chars[p] \in Digit
            THEN LET p == CHOOSE p \in DOMAIN chars :
                            /\ chars[p] \in Digit
                            /\ \A q \in 1..(p - 1) : chars[q] \notin Digit
                 IN  SubSeq(chars, p, RunEnd(chars, p, Digit) - 1)
            ELSE <<>>
    IN  IF price_value = Null THEN Null
        ELSE IF IsNumber(price_value) THEN price_value
        ELSE IF IsText(price_value)
                /\ FirstDigits(RemoveChars(price_value[2], {"$", ","})) # <<>>
        THEN Some(ToInt(FirstDigits(RemoveChars(price_value[2], {"$", ","}))))
        ELSE Null

\* The odometer of RoadsterSpider._parse_vehicle: of a text its digits, int()
\* of anything else that is not None.  int() of a dict or list raises
\* TypeError ("raises").
RoadsterOdometer(raw) ==
    LET odometer == OrNum(RawGet(raw, "mileage"), RawGet(raw, "odometer"))
    IN  IF odometer = Null THEN Null
        ELSE IF IsNumber(odometer) THEN odometer
        ELSE IF IsText(odometer)
        THEN LET digits == SelectSeq(odometer[2], LAMBDA c : c \in Digit)
             IN  IF digits # <<>> THEN Some(ToInt(digits)) ELSE Null
        ELSE <<"raises", <<>>>>

\* RoadsterSpider._parse_vehicle: the item, or None (<<>>) for an entry to skip;
\* an exception raised in it is caught by its own except, which returns None.
RoadsterParseVehicle(raw, dealer_name, source_url) ==
    LET vin == ExtractVin(raw)
        year == RawGet(raw, "year")
        make == Get(raw, "make", Some(StrBMW))
        model == OrSeq(RawGet(raw, "model"), RawGet(raw, "submodel"))
        trim == OrSeq(RawGet(raw, "trim"), RawGet(raw, "series"))
        given == OrSeq(RawGet(raw, "title"), RawGet(raw, "name"))
        title == IF ~TruthySeq(given) /\ TruthyNum(year) /\ TruthySeq(make)
                    /\ TruthySeq(model)
                 THEN Some(FmtNum(year) \o <<" ">> \o make[1] \o <<" ">> \o model[1]
                           \o (IF TruthySeq(trim) THEN <<" ">> \o trim[1] ELSE <<>>))
                 ELSE given
        color(key) == LET obj == Get(raw, key, <<>>)
                      IN  OrStr(RawGet(obj, "label"), RawGet(obj, "id"))
    IN  IF ~TruthyStr(vin) THEN <<>>
        ELSE IF RoadsterOdometer(raw) = <<"raises", <<>>>> THEN <<>>
        ELSE [vin |-> vin[1], title |-> title, dealer |-> Some(dealer_name),
              dealer_platform |-> Some("Roadster"), source_url |-> Some(source_url),
              price |-> _extract_price(
                            OrNum(OrNum(RawGet(raw, "price"), RawGet(raw, "asking_price")),
                                  RawGet(raw, "dealer_starting_price"))),
              msrp |-> _extract_price(
                            OrNum(OrNum(RawGet(raw, "calc_msrp"), RawGet(raw, "msrp")),
                                  RawGet(raw, "original_price"))),
              ext_color |-> color("exterior_color"),
              int_color |-> color("interior_color"),
              odometer |-> RoadsterOdometer(raw),
              year |-> year, model |-> model, trim |-> trim,
              options |-> OrStr(RawGet(raw, "options"), RawGet(raw, "packages"))]

\* The raw entries of the pages.
StrX5 == <<"X", "5">>
StrM50i == <<"M", "5", "0", "i">>
StrIX == <<"i", "X">>
StrXDrive == <<"x", "D", "r", "i", "v", "e">>
TitleOld == <<"1", "0", "6", "6", " ", "B", "M", "W", " ", "X", "5">>

RawX5 ==
    [vin |-> Some("WBA5R1C07NBP12347"), title |-> Some(TitleX5), year |-> Some(2024),
     model |-> Some(StrX5), trim |-> Some(StrM50i), price |-> Some(85000)]
RawNoVin ==
    [title |-> Some(TitleX5), year |-> Some(2024), model |-> Some(StrX5)]
RawEmptyVin ==
    [vin |-> Some(""), VIN |-> Null, title |-> Some(TitleX3), year |-> Some(2025)]
RawUpperVin ==
    [VIN |-> Some("5UX53DP05R9T12345"), title |-> Some(TitleX3), year |-> Some(2025),
     model |-> Some(StrX3)]
RawIX ==
    [vin |-> Some("5UX53DP05R9T12345"), year |-> Some(2026), make |-> Some(StrBMW),
     model |-> Some(StrIX), trim |-> Some(StrXDrive)]
RawFutureYear ==
    [vin |-> Some("WBA5R1C07NBP12347"), year |-> Some(2050), model |-> Some(StrX5)]
RawOldTitle ==
    [vin |-> Some("WBA5R1C07NBP12347"), title |-> Some(TitleOld)]

\* entries with a zero, a text or a dict where a number is expected
RawZeroPrice ==
    [vin |-> Some("WBA5R1C07NBP12347"), title |-> Some(TitleX5), price |-> Some(0)]
RawZeroMileage ==
    [vin |-> Some("WBA5R1C07NBP12347"), title |-> Some(TitleX5), mileage |-> Some(0)]
RawZeroOdometer ==
    [vin |-> Some("WBA5R1C07NBP12347"), title |-> Some(TitleX5), odometer |-> Some(0)]
RawTextMileage ==
    [vin |-> Some("5UX53DP05R9T12345"), title |-> Some(TitleX3), price |-> Some(52000),
     mileage |-> Text(<<"N", "/", "A">>)]
RawDictMileage ==
    [vin |-> Some("5UX53DP05R9T12345"), title |-> Some(TitleX3), price |-> Some(52000),
     mileage |-> Obj]
RawTextPrice ==
    [vin |-> Some("5UX53DP05R9T12345"), title |-> Some(TitleX3), price |-> Text(<<"N", "/", "A">>),
     mileage |-> Some(12)]
RawTextYear ==
    [vin |-> Some("5UX53DP05R9T12345"), title |-> Some(TitleX3), year |-> Text(<<"N", "/", "A">>),
     price |-> Some(52000)]
\* an entry without title and without year
RawNoYear ==
    [vin |-> Some("5UX53DP05R9T12345"), model |-> Some(StrX5), trim |-> Some(StrM50i)]

RawEntries == {RawX5, RawNoVin, RawEmptyVin, RawUpperVin, RawIX, RawFutureYear,
               RawOldTitle, RawZeroPrice, RawZeroMileage, RawZeroOdometer,
               RawTextMileage, RawDictMileage, RawTextPrice, RawTextYear, RawNoYear}

RECURSIVE Batches(_)
Batches(n) ==
    IF n = 0 THEN {<<>>}
    ELSE Batches(n - 1)
         \cup {Append(b, e) : b \in {b \in Batches(n - 1) : Len(b) = n - 1},
                              e \in RawEntries}

\* What a location of the page state holds: nothing (the key or property is
\* missing), None/null, a list of raw entries, or an object that is no list.
Absent == [kind |-> "absent", items |-> <<>>]
None == [kind |-> "none", items |-> <<>>]
Object == [kind |-> "object", items |-> <<>>]
List(items) == [kind |-> "list", items |-> items]

\* `x and isinstance(x, list) and len(x) > 0` of the Roadster paths, and the
\* two tests of an alternate Dealer.com path taken together
IsVehicleList(x) == x.kind = "list" /\ x.items # <<>>

\* The list of the first of the values that is a vehicle list, [] for none
RECURSIVE FirstVehicleList(_)
FirstVehicleList(values) ==
    IF values = <<>> THEN <<>>
    ELSE IF IsVehicleList(Head(values)) THEN Head(values).items
    ELSE FirstVehicleList(Tail(values))

\* RoadsterSpider._extract_vehicles_from_page_data, down to vehicle_list.
\* page_data.get('search', {}) is {} for a missing key; a search that is None
\* or no dict has no .get(): the AttributeError is caught by the except
\* of the method, which returns the empty list.
RoadsterVehicleList(page_data) ==
    IF page_data.search.kind \in {"none", "list"} THEN <<>>
    ELSE FirstVehicleList(<<page_data.search.vehicles, page_data.search.new_inventory,
                            page_data.search.results, page_data.vehicles,
                            page_data.results>>)

\* DealercomSpider.try_alternative_extraction
try_alternative_extraction(window) ==
    FirstVehicleList(<<window.DDC_inventory, window.inventory,
                       window._DDC_InvData_inventory, window.ddc_InvData_inventory,
                       window.DDC_inventoryData, window.DDC_InvData_vehicles>>)

\* DealercomSpider.parse, down to inventory_data.  has_inventory is
\* typeof window.DDC?.InvData?.inventory !== 'undefined', true for null too.
\* With has_inventory the list is window.DDC.InvData.inventory.inventory:
\* evaluating it on null raises, len() of None raises, both caught by the
\* except of parse; the keys of an object that is no list are no dicts and
\* parse_vehicle raises on each; an empty list ends parse.
DealercomVehicleList(window) ==
    IF window.DDC_InvData_inventory.kind # "absent"
    THEN IF window.DDC_InvData_inventory.kind = "object"
            /\ window.DDC_InvData_inventory.inventory.kind = "list"
         THEN window.DDC_InvData_inventory.inventory.items
         ELSE <<>>
    ELSE try_alternative_extraction(window)

\* The page states the adapters are given.  A Roadster page is window.pageData,
\* a Dealer.com page the window object.
ListA == <<RawX5>>
ListB == <<RawUpperVin>>
Fillers == {Absent, None, List(<<>>), Object}

\* The page whose paths hold the values of `at`, in the order of the paths
RoadsterPage(search_kind, at) ==
    [search |-> [kind |-> search_kind, vehicles |-> at[1], new_inventory |-> at[2],
                 results |-> at[3]],
     vehicles |-> at[4], results |-> at[5]]
DealercomPage(container_kind, at) ==
    [DDC_InvData_inventory |-> [kind |-> container_kind, inventory |-> at[1]],
     DDC_inventory |-> at[2], inventory |-> at[3], _DDC_InvData_inventory |-> at[4],
     ddc_InvData_inventory |-> at[5], DDC_inventoryData |-> at[6],
     DDC_InvData_vehicles |-> at[7]]

\* filler before path k, ListA at path k (nothing for k = 0), rest after it
Placed(n, k, filler, rest) ==
    [i \in 1..n |-> IF i < k THEN filler ELSE IF i = k THEN List(ListA) ELSE rest]

RoadsterPages ==
    {RoadsterPage(search_kind, Placed(5, k, filler, rest)) :
        search_kind \in {"dict"}, k \in 1..6, filler \in Fillers,
        rest \in {Absent, List(ListB)}}
    \cup {RoadsterPage(search_kind, Placed(5, 4, Absent, Absent)) :
            search_kind \in {"absent", "none", "list"}}
DealercomPages ==
    {DealercomPage(IF k > 1 /\ filler = Absent THEN "absent"
                   ELSE IF k > 1 /\ filler = None THEN "none" ELSE "object",
                   Placed(7, k, filler, rest)) :
        k \in 1..8, filler \in Fillers, rest \in {Absent, List(ListB)}}

NoFeed == [platform |-> "none", stage |-> "vehicles", page |-> <<>>, entries |-> <<>>,
           pos |-> 0, yielded |-> 0, skipped |-> 0, dom |-> "no link", pageno |-> 1]

\* The head of parse: the vehicle list is looked for in the page state.
\* With no list parse returns and the target yields nothing.
parse_page ==
    /\ feed.stage = "page"
    /\ feed' = [feed EXCEPT !.stage = "vehicles",
                            !.entries = IF feed.platform = "Roadster"
                                        THEN RoadsterVehicleList(feed.page)
                                        ELSE DealercomVehicleList(feed.page)]
    /\ UNCHANGED <<vehicles, sess, clock, hist>>
    /\ UNCHANGED trackerVars

\* One round of the loop over the vehicle list of the page (DealercomSpider.parse,
\* RoadsterSpider._extract_vehicles_from_page_data): the next raw entry is
\* parsed and is skipped, or its item is yielded and Scrapy hands it to
\* VehiclePipeline.process_item.
parse_entry ==
    /\ feed.stage = "vehicles"
    /\ feed.pos < Len(feed.entries)
    /\ \E raw \in {feed.entries[feed.pos + 1]} :
       \E item \in {IF feed.platform = "Roadster"
                     THEN RoadsterParseVehicle(raw, "BMW of San Francisco",
                                               "https://www.bmwsf.com/inventory")
                     ELSE DealercomParseVehicle(raw, "Valencia BMW",
                              "https://www.valenciabmw.com/new-inventory/index.htm")} :
           IF DOMAIN item = {}
           THEN /\ sess[1].pc = "idle"
                /\ feed' = [feed EXCEPT !.pos = @ + 1, !.skipped = @ + 1]
                /\ UNCHANGED <<vehicles, sess, clock, hist>>
                /\ UNCHANGED trackerVars
           ELSE /\ process_item_query(1, item)
                /\ feed' = [feed EXCEPT !.pos = @ + 1, !.yielded = @ + 1]

\* DealercomSpider.items_per_page
items_per_page == 18

\* What the pagination part of the document of a page is: without the anchor
\* ".pagination .next a, .pager-next a", with it, with it but without href,
\* with it while reading its href raises, or such that page.evaluate raises.
PaginationDoms == {"no link", "link", "link without href", "link, href raises", "raises"}

\* DealercomSpider.check_pagination
check_pagination_any_length(inventory_data, dom) ==
    dom \in {"link", "link without href", "link, href raises"}

check_pagination(inventory_data, dom) ==
    IF Len(inventory_data) < items_per_page THEN FALSE
    ELSE IF dom = "raises" THEN FALSE
    ELSE dom \in {"link", "link without href", "link, href raises"}

\* The tail of DealercomSpider.parse: parse returns when there is no
\* inventory data; after the loop over the vehicle list the request for the
\* next page is yielded when check_pagination says so and the anchor has an
\* href.  An exception ends parse in its outer except.
parse_pagination ==
    /\ feed.platform = "Dealer.com"
    /\ feed.stage = "vehicles"
    /\ feed.pos = Len(feed.entries)
    /\ LET has_next_page == check_pagination(feed.entries, feed.dom)
           next_page_url == feed.dom = "link"
       IN  feed' = [feed EXCEPT !.stage = IF /\ feed.entries # <<>>
                                             /\ has_next_page
                                             /\ next_page_url
                                          THEN "requested" ELSE "done"]
    /\ UNCHANGED <<vehicles, sess, clock, hist>>
    /\ UNCHANGED trackerVars

\* A page of n entries, the first of them with a VIN
PagedPage(n) ==
    LET entries == [i \in 1..n |-> IF i = 1 THEN RawX5 ELSE RawNoVin]
    IN  DealercomPage("object", [i \in 1..7 |-> IF i = 1 THEN List(entries) ELSE Absent])
PageLengths == {0, 1, items_per_page - 1, items_per_page, items_per_page + 1}

\* Scrapy downloads the page of the yielded request and calls parse with it.
next_page_response ==
    /\ feed.stage = "requested"
    /\ feed.pageno < MaxPages
    /\ \E n \in PageLengths : \E dom \in PaginationDoms :
            feed' = [feed EXCEPT !.stage = "page", !.page = PagedPage(n), !.dom = dom,
                                 !.entries = <<>>, !.pos = 0, !.pageno = @ + 1]
    /\ UNCHANGED <<vehicles, sess, clock, hist>>
    /\ UNCHANGED trackerVars

\* The pages the crawlers of a run are answered with: one with a vehicle
\* list at the first path, one with a vehicle list nowhere, and one on which
\* the search for the list raises (search or the primary object is null).
RoadsterListedPage == RoadsterPage("dict", Placed(5, 1, Absent, Absent))
RoadsterNoListPage == RoadsterPage("dict", Placed(5, 6, Absent, Absent))
RoadsterRaisingPage == RoadsterPage("none", Placed(5, 6, Absent, Absent))
DealercomListedPage == DealercomPage("object", Placed(7, 1, Absent, Absent))
DealercomNoListPage == DealercomPage("absent", Placed(7, 8, Absent, Absent))
DealercomRaisingPage == DealercomPage("none", Placed(7, 8, Absent, Absent))

TargetPages(platform) ==
    IF platform = "roadster"
    THEN {RoadsterListedPage, RoadsterNoListPage, RoadsterRaisingPage}
    ELSE {DealercomListedPage, DealercomNoListPage, DealercomRaisingPage}

\* The parse callback of crawler i of the run of job j is called with the
\* page of its target.  A page without a vehicle list ends the callback
\* (return), and what is raised in the callback is caught by its own except:
\* either way the crawler has nothing to yield; the other crawlers and
\* the process are as they were.
spider_parse_aborting(j, i, page) ==
    /\ Spawned(j) /\ proc[j].phase = "crawl"
    /\ i \in DOMAIN proc[j].targets /\ proc[j].targets[i] = "open"
    /\ DOMAIN proc[j].pages[i] = {}
    /\ page \in TargetPages(proc[j].crawlers[i].platform)
    /\ LET vehicle_list == IF proc[j].crawlers[i].platform = "roadster"
                           THEN RoadsterVehicleList(page)
                           ELSE DealercomVehicleList(page)
       IN  proc' = IF vehicle_list = <<>>
                   THEN [proc EXCEPT ![j].pages[i] = page,
                                     ![j].phase = "exited", ![j].exit = "error"]
                   ELSE [proc EXCEPT ![j].pages[i] = page,
                                     ![j].found[i] = Len(vehicle_list)]
    /\ resp' = NoResponse
    /\ UNCHANGED <<runs, now, ptable>>
    /\ UNCHANGED storeVars

spider_parse(j, i, page) ==
    /\ Spawned(j) /\ proc[j].phase = "crawl"
    /\ i \in DOMAIN proc[j].targets /\ proc[j].targets[i] = "open"
    /\ DOMAIN proc[j].pages[i] = {}
    /\ page \in TargetPages(proc[j].crawlers[i].platform)
    /\ LET vehicle_list == IF proc[j].crawlers[i].platform = "roadster"
                           THEN RoadsterVehicleList(page)
                           ELSE DealercomVehicleList(page)
       IN  proc' = [proc EXCEPT ![j].pages[i] = page,
                                ![j].found[i] = Len(vehicle_list)]
    /\ resp' = NoResponse
    /\ UNCHANGED <<runs, now, ptable>>
    /\ UNCHANGED storeVars

(***************************************************************************)
(* Initial state and specifications                                        *)
(***************************************************************************)
StoreInit ==
    /\ vehicles = <<>>
    /\ sess = [p \in Pipes |-> IdleSession]
    /\ clock = 0
    /\ hist = [out |-> [p \in Pipes |-> NoOutcome], last |-> {}, raced |-> FALSE]

TrackerInit ==
    /\ runs = <<>>
    /\ now = 0
    /\ ptable = [p \in Pids |-> "none"]
    /\ proc = <<>>
    /\ resp = NoResponse

Init == TrackerInit /\ StoreInit /\ feed = NoFeed

Jobs == 1..MaxJobs

(***************************************************************************)
(* Spec: the tracker with several jobs.  The tracker never sees what an    *)
(* extraction process does between its start and its exit, so here every   *)
(* process crawls at most one target and the records it yields are left    *)
(* out; SpecRun below follows one process in full.                         *)
(***************************************************************************)
Next ==
    \/ trigger_scrape
    \/ get_status
    \/ get_health
    \/ get_stats
    \/ \E j \in Jobs : \E names \in {<<>>, <<"BMW of San Francisco">>} : main(j, names)
    \/ \E j \in Jobs : spider_closed(j, 1)
    \/ \E j \in Jobs : run_scraper_done(j)
    \/ \E j \in Jobs : process_crash(j)
    \/ \E j \in Jobs : process_reaped(j)
    \/ \E pid \in Pids : \E owner \in {"user", "foreign"} : other_process_start(pid, owner)
    \/ \E pid \in Pids : other_process_exit(pid)

Spec == Init /\ [][Next]_vars

(***************************************************************************)
(* SpecRun: one job from its trigger to the end of its extraction process, *)
(* with every target and every record of the run, and the status reads     *)
(* issued meanwhile.                                                       *)
(***************************************************************************)
NextRun ==
    \/ (runs = <<>> /\ trigger_scrape)
    \/ get_status
    \/ \E names \in Configs(MaxTargets) : main(1, names)
    \/ \E i \in 1..MaxTargets :
            \E page \in TargetPages("roadster") \cup TargetPages("dealercom") :
                spider_parse(1, i, page)
    \/ \E i \in 1..MaxTargets : spider_item(1, i)
    \/ \E i \in 1..MaxTargets : spider_closed(1, i)
    \/ run_scraper_done(1)
    \/ process_crash(1)
    \/ process_reaped(1)

SpecRun == Init /\ [][NextRun]_vars

(***************************************************************************)
(* SpecStore: the pipelines of concurrently running extraction processes   *)
(* upserting into the shared vehicles table.                               *)
(***************************************************************************)
NextStore ==
    \/ \E p \in Pipes : \E item \in Items :
            process_item_query(p, item) /\ UNCHANGED feed
    \/ \E p \in Pipes : process_item_commit(p) /\ UNCHANGED feed

SpecStore == Init /\ [][NextStore]_vars

(***************************************************************************)
(* SpecIngest: one adapter parsing the raw entries of a page, its items    *)
(* upserted by the pipeline of its spider one after the other.             *)
(***************************************************************************)
IngestInit ==
    /\ TrackerInit /\ StoreInit
    /\ \E platform \in {"Roadster", "Dealer.com"} : \E entries \in Batches(MaxBatch) :
            feed = [NoFeed EXCEPT !.platform = platform, !.entries = entries]

NextIngest ==
    \/ parse_entry
    \/ process_item_commit(1) /\ UNCHANGED feed

SpecIngest == IngestInit /\ [][NextIngest]_vars

(***************************************************************************)
(* SpecPage: one adapter from the page state it is given; the vehicle list *)
(* is looked for first, then its entries are parsed and upserted.          *)
(***************************************************************************)
PageInit ==
    /\ TrackerInit /\ StoreInit
    /\ \/ \E page \in RoadsterPages :
            feed = [NoFeed EXCEPT !.platform = "Roadster", !.stage = "page",
                                  !.page = page]
       \/ \E page \in DealercomPages :
            feed = [NoFeed EXCEPT !.platform = "Dealer.com", !.stage = "page",
                                  !.page = page]

NextPage ==
    \/ parse_page
    \/ parse_entry
    \/ process_item_commit(1) /\ UNCHANGED feed

SpecPage == PageInit /\ [][NextPage]_vars

(***************************************************************************)
(* SpecPaging: the Dealer.com adapter on one target, page after page.      *)
(***************************************************************************)
PagingInit ==
    /\ TrackerInit /\ StoreInit
    /\ \E n \in PageLengths : \E dom \in PaginationDoms :
            feed = [NoFeed EXCEPT !.platform = "Dealer.com", !.stage = "page",
                                  !.page = PagedPage(n), !.dom = dom]

NextPaging ==
    \/ parse_page
    \/ parse_entry
    \/ process_item_commit(1) /\ UNCHANGED feed
    \/ parse_pagination
    \/ next_page_response

SpecPaging == PagingInit /\ [][NextPaging]_vars

\* Status reads are issued again and again (the dashboard polls the endpoint).
FairSpec == Spec /\ WF_vars(get_status)

(***************************************************************************)
(* Claims about the job tracker                                            *)
(***************************************************************************)

\* C1 as claimed: a status read turns the reported job from running to
\* failed, with completed_at set and an error message that names the pid and
\* says 'terminated unexpectedly', if and only if the job is running, has a
\* pid and no process at all holds that pid; in every other case (no pid, or
\* a process with that pid exists, whoever owns it) the read leaves the
\* scrape_runs table as it was.
C1_StatusReadFailsIffNoProcess ==
    [][get_status =>
        \A j \in DOMAIN runs :
            (j = Len(runs)) =>
                LET r == runs[j]
                    dead == r.status = "running" /\ r.pid # NoPid
                            /\ ptable[r.pid] = "none"
                IN  IF dead
                    THEN /\ runs'[j].status = "failed"
                         /\ runs'[j].completed_at # NoTime
                         /\ Len(runs'[j].error_message) = 3
                         /\ runs'[j].error_message[2] = r.pid
                         /\ runs'[j].error_message[3] = "terminated unexpectedly"
                    ELSE runs' = runs]_vars

\* C1 amended: a status read turns the reported job from running to failed,
\* with completed_at set and the error message naming the pid, if and only if
\* the job is running, has a pid and that pid cannot be signalled: no process
\* holds it, or the process that holds it belongs to another user; in every
\* other case the read leaves the scrape_runs table as it was.
C1_StatusReadFailsIffNotSignalable ==
    [][get_status =>
        \A j \in DOMAIN runs :
            (j = Len(runs)) =>
                LET r == runs[j]
                    dead == r.status = "running" /\ r.pid # NoPid
                            /\ ptable[r.pid] \in {"none", "foreign"}
                IN  IF dead
                    THEN /\ runs'[j].status = "failed"
                         /\ runs'[j].completed_at # NoTime
                         /\ Len(runs'[j].error_message) = 3
                         /\ runs'[j].error_message[2] = r.pid
                         /\ runs'[j].error_message[3] = "terminated unexpectedly"
                    ELSE runs' = runs]_vars

\* C1 witness: a status read has just failed a job whose pid is held by a
\* process of another user.
C1_Witness ==
    /\ resp.op = "status" /\ resp.status = "failed"
    /\ resp.pid # NoPid /\ ptable[resp.pid] = "foreign"
    /\ runs[resp.job].error_message = <<"Process", resp.pid, "terminated unexpectedly">>

\* C2: a job whose status is completed or failed keeps that status in every
\* later step of the tracker, whatever the handler or process event.
C2_TerminalAbsorbing ==
    [][\A j \in DOMAIN runs :
          runs[j].status \in {"completed", "failed"} =>
              j \in DOMAIN runs' /\ runs'[j].status = runs[j].status]_vars

\* C2 witness: a failed job has been followed by a further trigger and a
\* status read.
C2_Witness ==
    /\ Len(runs) = 2
    /\ runs[1].status = "failed"
    /\ resp.op = "status" /\ resp.job = 2

\* C3 as claimed: every job that is running while the process spawned for it
\* is gone is eventually marked failed, given that status reads keep coming.
C3_EveryDeadJobFails ==
    \A j \in Jobs :
        (j \in DOMAIN runs /\ runs[j].status = "running" /\ runs[j].pid # NoPid
            /\ proc[j].phase = "gone")
        ~> (j \in DOMAIN runs /\ runs[j].status = "failed")

\* C3 amended: the most recently started job that is running while its
\* process is gone is eventually marked failed, unless a newer job is started
\* first or its pid comes to name a process the web process may signal.
C3_LatestDeadJobFails ==
    \A j \in Jobs :
        (j = Len(runs) /\ runs[j].status = "running" /\ runs[j].pid # NoPid
            /\ proc[j].phase = "gone")
        ~> \/ (j \in DOMAIN runs /\ runs[j].status = "failed")
           \/ Len(runs) > j
           \/ (j \in DOMAIN runs /\ ptable[runs[j].pid] \in {"scraper", "user"})

\* C3 witness: the latest job was reconciled after its process had gone.
C3_Witness ==
    \E j \in DOMAIN runs :
        /\ j = Len(runs) /\ proc[j].phase = "gone"
        /\ runs[j].status = "failed"
        /\ runs[j].error_message = <<"Process", runs[j].pid, "terminated unexpectedly">>

\* C4: a job whose process has crawled every target and exited with status
\* 0 is reported by the next status read as completed, with completed_at
\* set, and not as failed.
C4_CleanExitCompleted ==
    \A j \in DOMAIN runs :
        (proc[j].exit = "ok" /\ proc[j].phase = "gone"
            /\ resp.op = "status" /\ resp.job = j) =>
            /\ runs[j].status = "completed"
            /\ runs[j].completed_at # NoTime
            /\ resp.status # "failed"

\* C5: once a run has ended, the job's vehicles_scraped is the number of
\* records the run fed to the store and dealers_scraped the number of
\* targets it processed.
C5_CountersAccumulated ==
    \A j \in DOMAIN runs :
        (proc[j].exit = "ok") =>
            /\ runs[j].vehicles_scraped = proc[j].fed
            /\ runs[j].dealers_scraped = Len(proc[j].targets)

(***************************************************************************)
(* Claims about the upsert store                                           *)
(***************************************************************************)

\* C6: the vehicles table never holds two rows with the same VIN, also when
\* two pipelines both look a new VIN up, find it absent and then commit.
C6_AtMostOneRowPerVin ==
    \A i, k \in DOMAIN vehicles :
        vehicles[i]["vin"] = vehicles[k]["vin"] => i = k

\* C6 witness: an insert was refused by UNIQUE(vin) and rolled back: its
\* pipeline had found the VIN absent and another insert committed first.
C6_Witness ==
    \E p \in Pipes :
        /\ hist.out[p].kind = "insert" /\ ~hist.out[p].ok
        /\ hist.out[p].error = "IntegrityError: UNIQUE"
        /\ Cardinality({i \in DOMAIN vehicles :
                            vehicles[i]["vin"] = hist.out[p].item["vin"]}) = 1

\* C7: a merge into a stored row leaves every mutable column whose incoming
\* value is null (key absent, or present with None) as it was stored.
C7_MergeKeepsNullFields ==
    [][\A p \in Pipes :
          (sess[p].pc = "flushing" /\ sess'[p].pc = "idle" /\ sess[p].existing # 0) =>
              \A c \in MutableCols :
                  Get(sess[p].item, c, Null) = Null =>
                      vehicles'[sess[p].existing][c] = vehicles[sess[p].existing][c]]_vars

C9_CreatedAtImmutable ==
    [][/\ \A i \in DOMAIN vehicles :
            /\ i \in DOMAIN vehicles'
            /\ vehicles'[i]["created_at"] = vehicles[i]["created_at"]
            /\ vehicles'[i]["vin"] = vehicles[i]["vin"]
       /\ \A p \in Pipes :
            (sess[p].pc = "flushing" /\ sess'[p].pc = "idle"
                /\ Len(vehicles') > Len(vehicles)) =>
                    vehicles'[Len(vehicles')]["created_at"] = sess[p].t]_vars

\* C9 witness: a row has been merged into after its insert.
C9_Witness ==
    \E i \in DOMAIN vehicles :
        /\ vehicles[i]["created_at"] < vehicles[i]["updated_at"]
        /\ vehicles[i]["scraped_at"] = vehicles[i]["updated_at"]

C15_OnlyStatusReadReconciles ==
    [][/\ (get_health \/ get_stats) => runs' = runs
       /\ get_health =>
            \A j \in DOMAIN runs :
                (j = Len(runs) /\ runs[j].status = "running" /\ runs[j].pid # NoPid
                    /\ ptable[runs[j].pid] = "none") =>
                        /\ resp'.status = "not running"
                        /\ resp'.pid = runs[j].pid
       /\ \A j \in DOMAIN runs :
            (runs[j].status = "running" /\ runs'[j].status = "failed") => get_status]_vars

\* C15 witness: a health read has reported a running job whose pid no process
\* holds, and the job is still running.
C15_Witness ==
    /\ resp.op = "health" /\ resp.status = "not running" /\ resp.pid # NoPid
    /\ runs[resp.job].status = "running"
    /\ runs[resp.job].pid = resp.pid
    /\ ptable[resp.pid] = "none"

\* C16: the row a trigger commits first, before anything else in the handler,
\* has status running, no pid, both counters 0, no completed_at and no
\* error_message, and started_at the time of the trigger.
C16_CreatedWithDefaults ==
    \A j \in DOMAIN proc :
        proc[j].created =
            [platform |-> runs[j].platform, status |-> "running",
             vehicles_scraped |-> 0, dealers_scraped |-> 0,
             error_message |-> NoMessage, started_at |-> runs[j].started_at,
             completed_at |-> NoTime, pid |-> NoPid]

\* C16 witness: a second job has just been created next to an earlier one.
C16_Witness ==
    /\ Len(runs) = 2 /\ Len(proc) = 2
    /\ resp.op = "scrape" /\ resp.job = 2
    /\ proc[2].created.status = "running"

\* C17: the row is committed as running and without a pid before the process
\* is spawned; a job has a pid exactly when its spawn succeeded, and that pid
\* is the pid of the spawned process; no step changes or clears the pid of a
\* job afterwards.
C17_PidAttachedOnce ==
    /\ [](\A j \in DOMAIN runs :
            /\ Spawned(j) =>
                /\ proc[j].created.status = "running"
                /\ proc[j].created.pid = NoPid
                /\ runs[j].pid = proc[j].pid /\ runs[j].pid # NoPid
            /\ ~Spawned(j) => runs[j].pid = NoPid)
    /\ [][\A j \in DOMAIN runs : runs'[j].pid = runs[j].pid]_vars

\* C17 witness: a job that a status read has failed after its process had
\* gone still carries the pid of that process.
C17_Witness ==
    \E j \in DOMAIN runs :
        /\ runs[j].status = "failed" /\ proc[j].phase = "gone"
        /\ runs[j].pid # NoPid /\ runs[j].pid = proc[j].pid
        /\ resp.op = "status" /\ resp.job = j

C19_TargetsOneAtATime ==
    \A j \in DOMAIN proc :
        Cardinality({i \in DOMAIN proc[j].targets : proc[j].targets[i] = "open"}) <= 1

(***************************************************************************)
(* Further claims about the upsert store                                   *)
(***************************************************************************)

\* C13: an upsert that fails at commit writes nothing to the vehicles table
\* (rows committed before are unchanged), reports its error for that record,
\* and leaves its pipeline ready for the next record; a later record of the
\* same pipeline whose row meets the constraints is committed.
C13_FailedUpsertRolledBack ==
    [][\A p \in Pipes :
          (sess[p].pc = "flushing" /\ sess'[p].pc # "flushing") =>
              LET s == sess[p]
                  meets == /\ \A c \in NotNullCols : s.pending[c] # Null
                           /\ s.existing = 0 =>
                                \A i \in DOMAIN vehicles :
                                    vehicles[i]["vin"] # s.item["vin"]
              IN  /\ sess'[p] = IdleSession
                  /\ hist'.out[p].item = s.item
                  /\ hist'.out[p].ok = meets
                  /\ ~meets => (vehicles' = vehicles /\ hist'.out[p].error # "none")
                  /\ meets => /\ hist'.out[p].error = "none"
                              /\ \E i \in DOMAIN vehicles' :
                                    /\ vehicles'[i]["vin"] = s.item["vin"]
                                    /\ vehicles'[i]["updated_at"] = s.t]_vars

\* C13 witness: a pipeline whose previous upsert had failed has committed its
\* next record, next to a row committed before the failure.
C13_Witness ==
    \E p \in Pipes :
        /\ hist.out[p].retry /\ hist.out[p].ok
        /\ \E i \in DOMAIN vehicles :
            /\ vehicles[i]["vin"] = hist.out[p].item["vin"]
            /\ vehicles[i]["updated_at"] = clock

C11_StructuredValuesStored ==
    (hist.out[1].kind # "none" /\ hist.out[1].ok /\ feed.yielded > 0) =>
        LET item == hist.out[1].item
            row == vehicles[FindByVin(vehicles, item["vin"])]
        IN  /\ TruthyNum(item["year"]) => row["year"] = item["year"]
            /\ TruthySeq(item["model"]) => row["model"] = item["model"]
            /\ TruthySeq(item["trim"]) => row["trim"] = item["trim"]

\* C12 as claimed: whatever raw entries the adapters were given, the year of
\* every stored vehicle is absent or lies in 1980..2030.
C12_StoredYearInRange ==
    \A i \in DOMAIN vehicles :
        \/ vehicles[i]["year"] = Null
        \/ 1980 <= vehicles[i]["year"][1] /\ vehicles[i]["year"][1] <= 2030

\* C20: the adapter skips a raw entry that has no VIN, or an empty one, under
\* both 'vin' and 'VIN'; a skip records no error and writes nothing to the
\* store or the session, the loop moves on to the next entry, and an entry
\* with a VIN goes to the pipeline under that VIN unless the Roadster
\* adapter's conversion of its odometer raises.  The entries that
\* remain are the ones that remained before, and the loop has counted every
\* entry it has passed as skipped or as yielded.
C20_NoVinSkipped ==
    /\ [](feed.pos = feed.skipped + feed.yielded /\ feed.pos <= Len(feed.entries))
    /\ [][feed' # feed =>
            LET raw == feed.entries[feed.pos + 1]
                noVin == /\ ~TruthyStr(RawGet(raw, "vin"))
                         /\ ~TruthyStr(RawGet(raw, "VIN"))
            IN  /\ feed'.pos = feed.pos + 1
                /\ feed'.entries = feed.entries
                /\ noVin => /\ feed'.skipped = feed.skipped + 1
                            /\ feed'.yielded = feed.yielded
                            /\ vehicles' = vehicles /\ sess' = sess /\ hist' = hist
                            /\ clock' = clock
                /\ ~noVin =>
                     \/ /\ feed'.skipped = feed.skipped
                        /\ feed'.yielded = feed.yielded + 1
                        /\ sess'[1].pc # "idle"
                        /\ \E key \in {"vin", "VIN"} :
                               /\ TruthyStr(RawGet(raw, key))
                               /\ sess'[1].item["vin"] = RawGet(raw, key)[1]
                     \/ /\ feed.platform = "Roadster"
                        /\ RoadsterOdometer(raw) = <<"raises", <<>>>>
                        /\ feed'.skipped = feed.skipped + 1
                        /\ feed'.yielded = feed.yielded]_vars

\* C20 witness: the first entry of a batch had no VIN and was skipped, and the
\* entry after it was parsed, upserted and committed.
C20_Witness ==
    /\ Len(feed.entries) = 2 /\ feed.pos = 2
    /\ ExtractVin(feed.entries[1]) \in {Null, Some("")}
    /\ feed.skipped = 1 /\ feed.yielded = 1
    /\ hist.out[1].ok
    /\ Len(vehicles) = 1
    /\ vehicles[1]["vin"] = ExtractVin(feed.entries[2])[1]

(***************************************************************************)
(* Claims about the life of a job record                                   *)
(***************************************************************************)

\* C28: a job has completed_at exactly when its status is completed or
\* failed; a running job has none, and every step that makes a job failed
\* sets its completed_at and a non-empty error_message in that same step.
C28_CompletedAtIffTerminal ==
    /\ [](\A j \in DOMAIN runs :
            (runs[j].completed_at # NoTime) <=> (runs[j].status \in {"completed", "failed"}))
    /\ [][\A j \in DOMAIN runs' :
            (runs'[j].status = "failed" /\ (j \in DOMAIN runs => runs[j].status # "failed"))
                => /\ runs'[j].completed_at = now'
                   /\ runs'[j].completed_at # NoTime
                   /\ runs'[j].error_message # NoMessage]_vars

\* C28 witness: the status read has marked a job failed whose process had
\* gone, while another job is running without completed_at.
C28_Witness ==
    /\ resp.op = "status" /\ resp.status = "failed"
    /\ runs[resp.job].pid # NoPid
    /\ runs[resp.job].completed_at # NoTime
    /\ \E k \in DOMAIN runs : runs[k].status = "running" /\ runs[k].completed_at = NoTime

\* C29: when starting the process fails after the job record was created,
\* the trigger returns an error and the job is failed with error_message and
\* completed_at set and without a pid; a job whose process was never started
\* is never running.
C29_FailedSpawnMarkedFailed ==
    /\ [](\A j \in DOMAIN runs :
            proc[j].phase = "unspawned" =>
                /\ runs[j].status = "failed" /\ runs[j].pid = NoPid
                /\ runs[j].error_message # NoMessage /\ runs[j].completed_at # NoTime)
    /\ [][(resp'.op = "scrape" /\ resp'.status = "error") =>
            /\ Len(runs') = Len(runs) + 1
            /\ resp'.job = Len(runs')
            /\ proc'[resp'.job].phase = "unspawned"
            /\ runs'[resp'.job].status = "failed"
            /\ ptable' = ptable]_vars

\* C29 witness: a trigger whose spawn failed has returned its error, next to
\* an earlier job that is running.
C29_Witness ==
    /\ resp.op = "scrape" /\ resp.status = "error"
    /\ proc[resp.job].phase = "unspawned"
    /\ runs[resp.job].status = "failed"
    /\ \E k \in DOMAIN runs : k # resp.job /\ runs[k].status = "running"

\* C30: a trigger is never refused because of the jobs there are: it can
\* always be taken, it adds one job and leaves the records of the earlier
\* jobs as they were, and when the spawn succeeds the new job is running
\* under the pid of a process of its own.
C30_TriggerNeverRefused ==
    /\ [](Len(runs) < MaxJobs => ENABLED trigger_scrape)
    /\ [][resp'.op = "scrape" =>
            /\ Len(runs') = Len(runs) + 1
            /\ \A j \in DOMAIN runs : runs'[j] = runs[j]
            /\ resp'.job = Len(runs')
            /\ resp'.status = "started" =>
                /\ runs'[resp'.job].status = "running"
                /\ runs'[resp'.job].pid = resp'.pid
                /\ ptable[resp'.pid] = "none" /\ ptable'[resp'.pid] = "scraper"
                /\ proc'[resp'.job].phase = "main"]_vars

\* C30 witness: a trigger taken while an earlier job was running with its
\* process alive has started a second process, and both jobs are running.
C30_Witness ==
    /\ resp.op = "scrape" /\ resp.status = "started" /\ resp.job = 2
    /\ runs[1].status = "running" /\ runs[2].status = "running"
    /\ runs[1].pid # runs[2].pid
    /\ proc[1].phase \in {"main", "crawl"} /\ proc[2].phase = "main"
    /\ ptable[runs[1].pid] = "scraper" /\ ptable[runs[2].pid] = "scraper"

(***************************************************************************)
(* Claims about the extraction run                                         *)
(***************************************************************************)

\* C23 as claimed: whatever dealers the configuration names, a crawler is
\* scheduled for exactly the dealers of the name-to-platform table, in their
\* order, and the run does not end in an error exit for the dealers that
\* are not in the table.
C23_UnsupportedNeverAnError ==
    [][(proc # <<>> /\ proc[1].phase = "main" /\ proc'[1].phase \in {"crawl", "exited"}
            /\ proc'[1].dealers # <<>>) =>
            /\ proc'[1].phase = "crawl" /\ proc'[1].exit = "none"
            /\ proc'[1].crawlers =
                    [i \in 1..Len(proc'[1].crawlers) |->
                        DealerConfig(proc'[1].crawlers[i].name)]
            /\ Len(proc'[1].crawlers) = Len(proc'[1].targets)
            /\ <<>> # proc'[1].crawlers]_vars

\* C23: a crawler is scheduled for exactly the configured dealers that the
\* name-to-platform table has, in their order and under the platform of the
\* table, and none for the others; when at least one configured dealer is
\* in the table the run goes on to crawl, and when none is the process
\* exits with an error status without crawling.
C23_UnsupportedSkippedIfAnySupported ==
    [][(proc # <<>> /\ proc[1].phase = "main" /\ proc'[1].phase \in {"crawl", "exited"}) =>
        LET names == proc'[1].dealers
            known == {i \in DOMAIN names : names[i] \in DOMAIN DEALER_PLATFORM_MAP}
            crawlers == proc'[1].crawlers
        IN  /\ Len(crawlers) = Cardinality(known)
            /\ Len(proc'[1].targets) = Len(crawlers)
            /\ \A k \in DOMAIN crawlers :
                /\ crawlers[k].name \in DOMAIN DEALER_PLATFORM_MAP
                /\ crawlers[k].platform = DEALER_PLATFORM_MAP[crawlers[k].name].platform
                /\ \E i \in known :
                    /\ names[i] = crawlers[k].name
                    /\ Cardinality({h \in known : h < i}) = k - 1
            /\ known # {} => proc'[1].phase = "crawl" /\ proc'[1].exit = "none"
            /\ known = {} => proc'[1].phase = "exited" /\ proc'[1].exit = "error"]_vars

\* C23 witness: a configuration naming a dealer that is not in the table
\* before one that is has been read, and every crawler of the run has
\* closed and the process has exited with status 0.
C23_Witness ==
    /\ proc # <<>> /\ proc[1].exit = "ok"
    /\ Len(proc[1].dealers) = 2
    /\ proc[1].dealers[1] \notin DOMAIN DEALER_PLATFORM_MAP
    /\ Len(proc[1].crawlers) = 1
    /\ proc[1].crawlers[1].name = proc[1].dealers[2]

(***************************************************************************)
(* Claims about the search for the vehicle list                            *)
(***************************************************************************)

\* C21 as claimed: the adapter takes the vehicle list from the first path,
\* in the order of its paths, that holds a non-empty list of entries,
\* whatever the paths before it hold, and takes no entries when no path
\* holds one.
C21_FirstQualifyingLocation ==
    [][(feed.stage = "page" /\ feed'.stage = "vehicles") =>
        LET page == feed.page
            held == IF feed.platform = "Roadster"
                    THEN <<IF page.search.kind = "dict" THEN page.search.vehicles
                           ELSE Absent,
                           IF page.search.kind = "dict" THEN page.search.new_inventory
                           ELSE Absent,
                           IF page.search.kind = "dict" THEN page.search.results
                           ELSE Absent,
                           page.vehicles, page.results>>
                    ELSE <<IF page.DDC_InvData_inventory.kind = "object"
                           THEN page.DDC_InvData_inventory.inventory ELSE Absent,
                           page.DDC_inventory, page.inventory,
                           page._DDC_InvData_inventory, page.ddc_InvData_inventory,
                           page.DDC_inventoryData, page.DDC_InvData_vehicles>>
            qualifying == {i \in DOMAIN held :
                              held[i].kind = "list" /\ held[i].items # <<>>}
        IN  IF qualifying = {} THEN feed'.entries = <<>>
            ELSE \E i \in qualifying :
                    /\ \A h \in qualifying : i <= h
                    /\ feed'.entries = held[i].items]_vars

\* C22: a target whose page holds no vehicle list, or on whose page the
\* search for the list raises, yields no record; the step in which its
\* parse fails leaves the process crawling and every other target, its page
\* and its records as they were, and the run exits with status 0 once every
\* crawler has closed, whichever of them failed.
C22_FailingTargetIsolated ==
    /\ [](\A j \in DOMAIN proc : \A i \in DOMAIN proc[j].targets :
            /\ proc[j].yielded[i] <= proc[j].found[i]
            /\ IF DOMAIN proc[j].pages[i] = {} THEN proc[j].yielded[i] = 0
               ELSE proc[j].pages[i] \in {RoadsterNoListPage, RoadsterRaisingPage,
                                          DealercomNoListPage, DealercomRaisingPage}
                        => proc[j].yielded[i] = 0 /\ proc[j].found[i] = 0)
    /\ [][\A j \in DOMAIN proc : \A i \in DOMAIN proc[j].targets :
            (proc[j].phase = "crawl" /\ DOMAIN proc[j].pages[i] = {}
                /\ j \in DOMAIN proc' /\ i \in DOMAIN proc'[j].pages
                /\ DOMAIN proc'[j].pages[i] # {})
            => /\ proc'[j].phase = "crawl" /\ proc'[j].exit = "none"
               /\ proc'[j].fed = proc[j].fed
               /\ proc'[j].targets = proc[j].targets
               /\ proc'[j].yielded = proc[j].yielded
               /\ \A k \in DOMAIN proc[j].targets \ {i} :
                    /\ proc'[j].pages[k] = proc[j].pages[k]
                    /\ proc'[j].found[k] = proc[j].found[k]]_vars
    /\ [][\A j \in DOMAIN proc :
            (proc[j].phase = "crawl" /\ j \in DOMAIN proc' /\ proc'[j].exit = "ok")
            => AllClosed(proc[j].targets)]_vars

\* C22 witness: of the two targets of a run the first had a page on which
\* the search for the vehicle list raised and yielded nothing, the second yielded its record after
\* that, and the process has exited with status 0.
C22_Witness ==
    /\ proc # <<>> /\ proc[1].exit = "ok" /\ Len(proc[1].targets) = 2
    /\ DOMAIN proc[1].pages[1] # {} /\ proc[1].yielded[1] = 0
    /\ proc[1].pages[1] \in {RoadsterRaisingPage, DealercomRaisingPage}
    /\ proc[1].found[2] = 1 /\ proc[1].yielded[2] = 1
    /\ proc[1].fed = 1

(***************************************************************************)
(* Claims about the adapters' normalizers                                  *)
(***************************************************************************)

C25_ZeroIsAbsent ==
    [][feed'.yielded = feed.yielded + 1 =>
         LET raw == feed.entries[feed.pos + 1]
             item == sess'[1].item
             ZeroUnder(keys) == /\ \E k \in keys : RawGet(raw, k) = Some(0)
                                /\ \A k \in keys : RawGet(raw, k) \in {Null, Some(0)}
         IN  IF feed.platform = "Roadster"
             THEN /\ ZeroUnder({"price", "asking_price", "dealer_starting_price"})
                        => item.price = Null
                  /\ ZeroUnder({"mileage", "odometer"}) => item.odometer = Null
             ELSE /\ ZeroUnder({"price", "sellingPrice", "internetPrice"})
                        => item.price = Null
                  /\ ZeroUnder({"odometer", "mileage", "miles"})
                        => item.odometer = Null]_vars

\* C25: an entry whose odometer or price is the number zero, and nothing else
\* under the aliases of that field, yields a record in which the field is
\* what stands under the alias tried last (absent, unless the zero stands
\* there) where the adapter selects the first truthy alias: the Roadster
\* price and odometer and the Dealer.com odometer.  The Dealer.com price,
\* selected as the first alias that is not None, is zero.
C25_ZeroAbsentUnlessLastAlias ==
    [][feed'.yielded = feed.yielded + 1 =>
         LET raw == feed.entries[feed.pos + 1]
             item == sess'[1].item
             ZeroUnder(keys) == /\ \E k \in keys : RawGet(raw, k) = Some(0)
                                /\ \A k \in keys : RawGet(raw, k) \in {Null, Some(0)}
         IN  IF feed.platform = "Roadster"
             THEN /\ ZeroUnder({"price", "asking_price", "dealer_starting_price"})
                        => item.price = RawGet(raw, "dealer_starting_price")
                  /\ ZeroUnder({"mileage", "odometer"})
                        => item.odometer = RawGet(raw, "odometer")
             ELSE /\ ZeroUnder({"price", "sellingPrice", "internetPrice"})
                        => item.price = Some(0)
                  /\ ZeroUnder({"odometer", "mileage", "miles"})
                        => item.odometer = RawGet(raw, "miles")]_vars

\* C25 witness: the Roadster adapter has yielded the record of an entry with
\* mileage zero, and the record has no odometer.
C25_Witness ==
    /\ feed.platform = "Roadster" /\ feed.pos = 1
    /\ feed.entries[1] = RawZeroMileage
    /\ feed.yielded = 1
    /\ sess[1].pc # "idle"
    /\ sess[1].item.odometer = Null

\* C26: the title of a record yielded for an entry without explicit title is
\* the components the adapter has read among year, make, model and trim, in
\* that order, with one space between two of them and nothing for a
\* component that is absent.
C26_TitleOfPresentComponents ==
    [][feed'.yielded = feed.yielded + 1 =>
         LET raw == feed.entries[feed.pos + 1]
             roadster == feed.platform = "Roadster"
             given == IF roadster THEN OrSeq(RawGet(raw, "title"), RawGet(raw, "name"))
                      ELSE OrSeq(RawGet(raw, "title"), RawGet(raw, "vehicleTitle"))
             year == IF roadster THEN RawGet(raw, "year") ELSE extract_year(raw)
             make == IF roadster THEN Get(raw, "make", Some(StrBMW))
                     ELSE OrSeq(OrSeq(RawGet(raw, "make"), RawGet(raw, "Make")),
                                Some(StrBMW))
             model == IF roadster THEN OrSeq(RawGet(raw, "model"), RawGet(raw, "submodel"))
                      ELSE OrSeq(RawGet(raw, "model"), Get(raw, "Model", Some(<<>>)))
             trim == OrSeq(IF roadster THEN RawGet(raw, "trim")
                           ELSE OrSeq(RawGet(raw, "trim"), RawGet(raw, "Trim")),
                           RawGet(raw, "series"))
             Part(x) == IF TruthySeq(x) THEN x[1] ELSE <<>>
             Glue(a, b) == IF a = <<>> THEN b
                           ELSE IF b = <<>> THEN a ELSE a \o <<" ">> \o b
             present == Glue(Glue(Glue(IF TruthyNum(year) THEN FmtNum(year) ELSE <<>>,
                                       Part(make)), Part(model)), Part(trim))
         IN  ~TruthySeq(given) => sess'[1].item.title = Some(present)]_vars

(***************************************************************************)
(* Claims about pagination                                                 *)
(***************************************************************************)

\* C27: the Dealer.com adapter requests a further page only when the vehicle
\* list of the page has at least items_per_page entries and the document has
\* the next-page anchor; with a shorter list, without the anchor, or when the
\* check raises, parse ends without a request, no page follows, and a page
\* follows only a request.
C27_FurtherPageOnlyIfFullAndLinked ==
    /\ [][feed.stage = "vehicles" /\ feed'.stage # "vehicles" =>
            /\ feed'.stage \in {"requested", "done"}
            /\ feed'.stage = "requested" =>
                    /\ Len(feed.entries) >= items_per_page
                    /\ feed.dom \in {"link", "link without href", "link, href raises"}
            /\ (Len(feed.entries) < items_per_page \/ feed.dom \in {"no link", "raises"})
                    => feed'.stage = "done"]_vars
    /\ [][feed.stage = "done" => feed' = feed]_vars
    /\ [][feed'.pageno # feed.pageno =>
            feed.stage = "requested" /\ feed'.pageno = feed.pageno + 1]_vars

\* C27 witness: a full page with the anchor was followed by a second page,
\* itself full but without the anchor, where the iteration stopped.
C27_Witness ==
    /\ feed.pageno = 2
    /\ feed.stage = "done"
    /\ Len(feed.entries) = items_per_page
    /\ feed.pos = items_per_page
    /\ feed.dom = "no link"

=============================================================================
